---------------------------- MODULE Spec2Model ----------------------------
(***************************************************************************)
(* GeminiSpeak: the relay service (chatbot.py, POST /chat) and the client  *)
(* shell (streamlit.py, one Streamlit session).                            *)
(*                                                                         *)
(* A text is a sequence of pieces.  Text typed by a user is a sequence of  *)
(* single characters, so that len() and str.strip() are computed on it; a  *)
(* string literal of the source is a one-piece text, and an f-string is    *)
(* the concatenation of its literal and of the interpolated text.          *)
(***************************************************************************)
EXTENDS Integers, Sequences, FiniteSets, TLC

VARIABLES
    \* ---- relay service (chatbot.py) ----
    model,          \* module global `model`: "None" or "GenerativeModel"
    rpc,            \* position of the request being served: idle, upstream, done
    rreq,           \* the ChatRequest being served
    rconvo,         \* turns presented upstream: start_chat history + sent message
    rout,           \* what the upstream call produced
    rresp,          \* what the endpoint ends with
    delivered,      \* the response handed to the previous caller
    \* ---- client shell (streamlit.py) ----
    messages,       \* st.session_state.messages
    thinking,       \* st.session_state.thinking (absent reads as False)
    inputDisabled,  \* `disabled` of the chat input as last rendered
    pc,             \* script position: idle (run ended), awaiting (in requests.post)
    pending,        \* widget event of the browser not yet consumed by a run
    request,        \* JSON body of the relay call in flight
    upstreamSeen,   \* turns the relay presented upstream for that call
    convBefore,     \* the conversation when the current submission arrived
    outcome         \* how the last submission attempt ended

relayVars == <<rpc, rreq, rconvo, rout, rresp, delivered>>
shellVars == <<messages, thinking, inputDisabled, pc, pending, request,
               upstreamSeen, convBefore, outcome>>
vars == <<model, rpc, rreq, rconvo, rout, rresp, delivered, messages, thinking,
          inputDisabled, pc, pending, request, upstreamSeen, convBefore, outcome>>

----------------------------------------------------------------------------
(* Bounds and program constants *)

MaxHistory == 2

MaxTurns == 4

MAX_LENGTH == 1000

HTTP_400_BAD_REQUEST == 400

HTTP_500_INTERNAL_SERVER_ERROR == 500

----------------------------------------------------------------------------
(* Texts *)

Lit(s) == <<s>>

Rep(c, n) == [i \in 1..n |-> c]

Whitespace == {" ", "\t", "\n"}

\* str.strip(): the text without its leading and trailing whitespace.
strip(s) ==
    LET keep == {i \in 1..Len(s) : s[i] \notin Whitespace}
    IN  IF keep = {} THEN <<>>
        ELSE LET lo == CHOOSE i \in keep : \A j \in keep : i <= j
                 hi == CHOOSE i \in keep : \A j \in keep : j <= i
             IN  SubSeq(s, lo, hi)

SeqsUpTo(S, n) == UNION {[1..k -> S] : k \in 0..n}

----------------------------------------------------------------------------
(* Relay service: data *)

ChatPart(t) == [text |-> t]

ChatMessage(r, ps) == [role |-> r, parts |-> ps]

ChatRequest(m, h) == [message |-> m, chat_history |-> h]

NoRequest == ChatRequest(<<>>, <<>>)

NoText == <<>>

\* What the endpoint ends with.  kind: ChatResponse (200), HTTPException (raised
\* by the handler, `site` the raise), RequestValidationError (pydantic, 422),
\* or an exception that leaves the handler unhandled.
Response(k, st, ai, d, s) ==
    [kind |-> k, status_code |-> st, ai_message |-> ai, detail |-> d, site |-> s]

NoResponse == Response("none", 0, NoText, NoText, "none")

ChatResponse(ai) == Response("ChatResponse", 200, ai, NoText, "none")

HTTPException(st, d, s) == Response("HTTPException", st, NoText, d, s)

Unhandled(exc) == Response("Unhandled", 0, NoText, Lit(exc), "none")

\* What convo.send_message_async produces.
Upstream(k, cs, t, hs, st) ==
    [kind |-> k, candidates |-> cs, text |-> t, has_status |-> hs, status_code |-> st]

NoOutcome == Upstream("none", <<>>, NoText, FALSE, 0)

Candidate(hc, ps) == [has_content |-> hc, parts |-> ps]

FALLBACK == Lit("Sorry, I couldn't generate a coherent response.")


----------------------------------------------------------------------------
(* Relay service: chat_with_gemini *)

\* pydantic, before the handler runs: message has min_length=1, max_length=1000.
ValidRequest(req) ==
    /\ Len(req.message) >= 1
    /\ Len(req.message) <= MAX_LENGTH

\* formatted_history gone wrong: only the first part of each message is kept.
formatted_history_first_part(h) ==
    [i \in 1..Len(h) |->
        [role |-> h[i].role,
         parts |-> IF h[i].parts = <<>> THEN <<>>
                   ELSE <<[text |-> h[i].parts[1].text]>>]]

\* One dict {"role", "parts": [{"text"}...]} per message of the history, in order.
formatted_history(h) ==
    [i \in 1..Len(h) |->
        [role |-> h[i].role,
         parts |-> [j \in 1..Len(h[i].parts) |-> [text |-> h[i].parts[j].text]]]]

\* model.start_chat(history=h) then convo.send_message_async(m): the turns
\* upstream is given, m being the next user turn.
send_message(h, m) == Append(h, [role |-> "user", parts |-> <<[text |-> m]>>])

\* The handler up to the upstream call; NoResponse when the call is made.
BeforeUpstream(req, mdl) ==
    IF ~ValidRequest(req)
    THEN Response("RequestValidationError", 422, NoText,
                  Lit("string length out of range"), "none")
    ELSE IF mdl = "None"
    THEN HTTPException(HTTP_500_INTERNAL_SERVER_ERROR,
             Lit("Gemini model not initialized. Backend service unavailable."),
             "ServiceUnavailable")
    ELSE IF strip(req.message) = <<>>
    THEN HTTPException(HTTP_400_BAD_REQUEST, Lit("Message cannot be empty."),
                       "InvalidInput")
    ELSE NoResponse

\* ai_text gone wrong: nothing is substituted when there is no text to read.
ai_text_no_fallback(o) ==
    IF /\ o.candidates # <<>>
       /\ o.candidates[1].has_content
       /\ o.candidates[1].parts # <<>>
    THEN o.candidates[1].parts[1].text
    ELSE NoText

\* Response extraction: the first candidate's first part's text, or the fallback.
ai_text(o) ==
    IF /\ o.candidates # <<>>
       /\ o.candidates[1].has_content
       /\ o.candidates[1].parts # <<>>
    THEN o.candidates[1].parts[1].text
    ELSE FALLBACK

\* except genai.types.APIError as e: the log line reads e.status_code before
\* hasattr(e, 'status_code') is asked.
api_error(o) ==
    IF ~o.has_status
    THEN Unhandled("AttributeError")
    ELSE HTTPException(
             IF o.has_status THEN o.status_code ELSE HTTP_500_INTERNAL_SERVER_ERROR,
             Lit("Gemini API error: ") \o o.text, "UpstreamError")

\* except Exception as e
internal_error(o) ==
    HTTPException(HTTP_500_INTERNAL_SERVER_ERROR,
        Lit("An unexpected internal server error occurred: ") \o o.text,
        "InternalError")

\* except genai.types.BlockedPromptException as e
blocked_prompt(o) ==
    HTTPException(HTTP_400_BAD_REQUEST,
        Lit("Your prompt was blocked by safety settings. Please try rephrasing: ")
            \o o.text,
        "UpstreamBlocked")

\* The handler from the upstream call's result on.
AfterUpstream(o) ==
    CASE o.kind = "reply" -> ChatResponse(ai_text(o))
      [] o.kind = "BlockedPromptException" -> blocked_prompt(o)
      [] o.kind = "APIError" -> api_error(o)
      [] OTHER -> internal_error(o)

\* The whole endpoint, given what upstream produces if it is called.
chat_with_gemini(req, mdl, o) ==
    LET r == BeforeUpstream(req, mdl)
    IN  IF r = NoResponse THEN AfterUpstream(o) ELSE r

----------------------------------------------------------------------------
(* Relay service: inputs *)

Messages ==
    { <<>>, <<" ">>, <<"\t", " ">>, <<"a">>, <<" ", "a", " ">>,
      Rep("a", MAX_LENGTH), Rep("a", MAX_LENGTH + 1), Rep(" ", MAX_LENGTH + 1) }

Turns ==
    { ChatMessage("user", <<ChatPart(<<"a">>)>>),
      ChatMessage("model", <<ChatPart(<<"b">>), ChatPart(<<"c">>)>>),
      ChatMessage("assistant", <<ChatPart(<<"b">>)>>) }

Histories == SeqsUpTo(Turns, MaxHistory)

ExcTexts == { Lit("quota exceeded"), Lit("boom") }

ReplyTexts == { <<"H", "i">>, <<"o", "k">> }

Replies ==
    { Upstream("reply", cs, NoText, FALSE, 0) :
        cs \in { <<>>, <<Candidate(FALSE, <<>>)>>, <<Candidate(TRUE, <<>>)>> }
               \cup { <<Candidate(TRUE, <<ChatPart(t)>>)>> : t \in ReplyTexts } }

UpstreamOutcomes ==
    Replies
    \cup { Upstream("BlockedPromptException", <<>>, e, FALSE, 0) : e \in ExcTexts }
    \cup { Upstream("APIError", <<>>, e, TRUE, 429) : e \in ExcTexts }
    \cup { Upstream("APIError", <<>>, e, FALSE, 0) : e \in ExcTexts }
    \cup { Upstream("Exception", <<>>, e, FALSE, 0) : e \in ExcTexts }

----------------------------------------------------------------------------
(* Relay service: one request at a time, any client *)

RelayInit ==
    /\ model \in {"None", "GenerativeModel"}
    /\ rpc = "idle"
    /\ rreq = NoRequest
    /\ rconvo = <<>>
    /\ rout = NoOutcome
    /\ rresp = NoResponse
    /\ delivered = NoResponse

\* POST /chat arrives: validation and the handler up to the await.
Receive(req) ==
    /\ rpc = "idle"
    /\ rreq' = req
    /\ rout' = NoOutcome
    /\ LET r == BeforeUpstream(req, model)
       IN  IF r = NoResponse
           THEN /\ rconvo' = send_message(formatted_history(req.chat_history),
                                          req.message)
                /\ rresp' = NoResponse
                /\ rpc' = "upstream"
           ELSE /\ rconvo' = <<>>
                /\ rresp' = r
                /\ rpc' = "done"
    /\ UNCHANGED <<model, delivered, shellVars>>

\* The await resumes: the rest of the handler.
UpstreamReturns(o) ==
    /\ rpc = "upstream"
    /\ rout' = o
    /\ rresp' = AfterUpstream(o)
    /\ rpc' = "done"
    /\ UNCHANGED <<model, rreq, rconvo, delivered, shellVars>>

\* The response leaves; the service keeps nothing of the request.
Deliver ==
    /\ rpc = "done"
    /\ delivered' = rresp
    /\ rpc' = "idle"
    /\ rreq' = NoRequest
    /\ rconvo' = <<>>
    /\ rout' = NoOutcome
    /\ rresp' = NoResponse
    /\ UNCHANGED <<model, shellVars>>

----------------------------------------------------------------------------
(* Client shell: data *)

Message(r, c) == [role |-> r, content |-> c]

Event(k, t) == [kind |-> k, text |-> t]

NoEvent == Event("none", NoText)

\* What requests.post ends with: a response (status, body) or an exception.
Http(k, st, f, ha, ai, hd, d) ==
    [kind |-> k, status_code |-> st, body |-> f, has_ai_message |-> ha,
     ai_message |-> ai, has_detail |-> hd, detail |-> d]

Raised(exc) == Http(exc, 0, "none", FALSE, NoText, FALSE, NoText)

\* What one attempt came to: which clause ended it, and the reply to append.
Attempt(k, a, ai) == [outcome |-> k, append |-> a, ai_message |-> ai]

DEFAULT_AI_MESSAGE == Lit("Sorry, I couldn't get a clear response from Gemini.")

----------------------------------------------------------------------------
(* Client shell: the script *)

\* The loop over st.session_state.messages that builds the request's history.
chat_history_for_api(msgs) ==
    LET kept == SelectSeq(msgs, LAMBDA m : m.role \in {"user", "assistant"})
    IN  [i \in 1..Len(kept) |->
            ChatMessage(kept[i].role, <<ChatPart(kept[i].content)>>)]

\* FastAPI's rendering of what the endpoint ends with.
to_http(r) ==
    CASE r.kind = "ChatResponse" ->
            Http("response", r.status_code, "object", TRUE, r.ai_message, FALSE, NoText)
      [] r.kind \in {"HTTPException", "RequestValidationError"} ->
            Http("response", r.status_code, "object", FALSE, NoText, TRUE, r.detail)
      [] OTHER ->
            Http("response", HTTP_500_INTERNAL_SERVER_ERROR, "text", FALSE, NoText,
                 FALSE, NoText)

\* except_clause gone wrong: the error is also appended as a reply.
except_clause_appends(k) == Attempt(k, TRUE, Lit(k))

\* An except clause: an error is rendered, the conversation is not touched.
except_clause(k) == Attempt(k, FALSE, NoText)

\* except requests.exceptions.HTTPError: e.response.json() of a JSON body that
\* is no object has no .get, and the AttributeError leaves the clause.
http_error(t) ==
    IF t.body = "array" THEN Attempt("uncaught", FALSE, NoText)
    ELSE except_clause("HTTPError")

\* The try body after requests.post returned a response.
on_response(t) ==
    IF t.status_code >= 400 THEN http_error(t)
    ELSE IF t.body = "text" THEN except_clause("JSONDecodeError")
    ELSE IF t.body = "array" THEN except_clause("Exception")
    ELSE Attempt("success", TRUE,
                 IF t.has_ai_message THEN t.ai_message ELSE DEFAULT_AI_MESSAGE)

\* The try statement from requests.post's result to the finally block.  A
\* BaseException (KeyboardInterrupt, the runtime's script-control exceptions)
\* matches no clause.
after_call(t) ==
    CASE t.kind = "response" -> on_response(t)
      [] t.kind = "BaseException" -> Attempt("uncaught", FALSE, NoText)
      [] OTHER -> except_clause(t.kind)

\* The script from its top to the chat input, no widget having fired: the
\* input is rendered with disabled = session_state.get("thinking", False).
Rerender ==
    /\ inputDisabled' = thinking'
    /\ pc' = "idle"

\* Finally gone wrong: the script is run again with the flag still set.
Finally_keeps_flag ==
    /\ thinking' = thinking
    /\ Rerender

\* finally: the flag is reset, st.rerun() runs the script again.
Finally ==
    /\ thinking' = FALSE
    /\ Rerender

Prompts == { <<"a">>, <<" ">> }

ShellInit ==
    /\ messages = <<>>
    /\ thinking = FALSE
    /\ inputDisabled = FALSE
    /\ pc = "idle"
    /\ pending = NoEvent
    /\ request = NoRequest
    /\ upstreamSeen = <<>>
    /\ convBefore = <<>>
    /\ outcome = "none"

\* The user submits the chat input, which the browser allows while the
\* input is not rendered disabled.
UserSubmits(p) ==
    /\ ~inputDisabled
    /\ pending = NoEvent
    /\ Len(messages) + (IF pc = "awaiting" THEN 1 ELSE 0) + 2 <= MaxTurns
    /\ pending' = Event("prompt", p)
    /\ UNCHANGED <<model, relayVars, messages, thinking, inputDisabled, pc,
                   request, upstreamSeen, convBefore, outcome>>

\* The user clicks "Clear Chat".
UserClicksClear ==
    /\ pending = NoEvent
    /\ pending' = Event("clear", NoText)
    /\ UNCHANGED <<model, relayVars, messages, thinking, inputDisabled, pc,
                   request, upstreamSeen, convBefore, outcome>>

\* A run with the button pressed: the list is emptied, st.rerun().
RunClear ==
    /\ pc = "idle"
    /\ pending.kind = "clear"
    /\ pending' = NoEvent
    /\ messages' = <<>>
    /\ convBefore' = <<>>
    /\ request' = NoRequest
    /\ upstreamSeen' = <<>>
    /\ outcome' = "none"
    /\ thinking' = thinking
    /\ Rerender
    /\ UNCHANGED <<model, relayVars>>

\* A run with a prompt, up to requests.post: the input was rendered at the
\* top of the run, then the user turn is appended, the history built from the
\* list, the flag set and the request sent.
RunSubmit ==
    /\ pc = "idle"
    /\ pending.kind = "prompt"
    /\ pending.text # <<>>
    /\ pending' = NoEvent
    /\ inputDisabled' = thinking
    /\ convBefore' = messages
    /\ messages' = Append(messages, Message("user", pending.text))
    /\ request' = ChatRequest(pending.text, chat_history_for_api(messages'))
    /\ thinking' = TRUE
    /\ upstreamSeen' = <<>>
    /\ outcome' = "none"
    /\ pc' = "awaiting"
    /\ UNCHANGED <<model, relayVars>>

\* requests.post ended with t: the rest of the try statement, then finally.
Resolve(t) ==
    /\ pc = "awaiting"
    /\ LET r == after_call(t)
       IN  /\ messages' = IF r.append
                          THEN Append(messages, Message("assistant", r.ai_message))
                          ELSE messages
           /\ outcome' = r.outcome
    /\ Finally
    /\ UNCHANGED <<model, relayVars, pending, request, convBefore>>

\* The relay served the request.
RelayResponds(o) ==
    /\ upstreamSeen' =
          IF BeforeUpstream(request, model) = NoResponse
          THEN send_message(formatted_history(request.chat_history), request.message)
          ELSE <<>>
    /\ Resolve(to_http(chat_with_gemini(request, model, o)))

\* No response came: connection refused, the 60 s timeout, anything else.
TransportFails(k) ==
    /\ Resolve(Raised(k))
    /\ UNCHANGED upstreamSeen

TransportFailures == {"ConnectionError", "Timeout", "Exception", "BaseException"}

\* Something else answers on the endpoint's address.
OtherResponses ==
    { Http("response", 404, "object", FALSE, NoText, TRUE, Lit("Not Found")),
      Http("response", 502, "text", FALSE, NoText, FALSE, NoText),
      Http("response", 500, "array", FALSE, NoText, FALSE, NoText),
      Http("response", 200, "text", FALSE, NoText, FALSE, NoText),
      Http("response", 200, "array", FALSE, NoText, FALSE, NoText),
      Http("response", 200, "object", FALSE, NoText, FALSE, NoText) }

OtherServerResponds(t) ==
    /\ Resolve(t)
    /\ UNCHANGED upstreamSeen

----------------------------------------------------------------------------
(* Specifications *)

\* One shell session and the relay that serves it.
Init ==
    /\ model \in {"None", "GenerativeModel"}
    /\ rpc = "idle"
    /\ rreq = NoRequest
    /\ rconvo = <<>>
    /\ rout = NoOutcome
    /\ rresp = NoResponse
    /\ delivered = NoResponse
    /\ ShellInit

Next ==
    \/ \E p \in Prompts : UserSubmits(p)
    \/ UserClicksClear
    \/ RunClear
    \/ RunSubmit
    \/ \E o \in UpstreamOutcomes : RelayResponds(o)
    \/ \E k \in TransportFailures : TransportFails(k)
    \/ \E t \in OtherResponses : OtherServerResponds(t)

Spec == Init /\ [][Next]_vars

\* The relay serving any client's requests.
RelaySpecInit ==
    /\ RelayInit
    /\ ShellInit

RelayNext ==
    \/ \E m \in Messages : \E h \in Histories : Receive(ChatRequest(m, h))
    \/ \E o \in UpstreamOutcomes : UpstreamReturns(o)
    \/ Deliver

RelaySpec == RelaySpecInit /\ [][RelayNext]_vars

----------------------------------------------------------------------------
(* Properties *)

\* A conversation of the shell as turns {role, parts: [{text}]}.
AsTurns(conv) ==
    [i \in 1..Len(conv) |-> ChatMessage(conv[i].role, <<ChatPart(conv[i].content)>>)]

UserTurn(m) == ChatMessage("user", <<ChatPart(m)>>)

AllWhitespace(m) == \A i \in 1..Len(m) : m[i] \in Whitespace

\* C1: the chat_history of a relay request is the conversation as it was before
\* the submitted message was appended, so the conversation the relay presents
\* upstream is that history followed by the message, once.
C1_HistoryExcludesNewMessage ==
    /\ pc = "awaiting" => request.chat_history = AsTurns(convBefore)
    /\ upstreamSeen # <<>> =>
          upstreamSeen = Append(AsTurns(convBefore), UserTurn(request.message))

FailureOutcomes ==
    {"ConnectionError", "Timeout", "HTTPError", "JSONDecodeError", "Exception",
     "uncaught"}

\* C2: after a failed relay call the conversation is the conversation before the
\* submission followed by the one new user turn, nothing else added or changed.
C2_FailureKeepsConversation ==
    outcome \in FailureOutcomes =>
        messages = Append(convBefore, Message("user", request.message))

\* C2's case: a call failed after an earlier exchange had succeeded.
C2_FailureAfterExchange ==
    /\ outcome = "HTTPError"
    /\ Len(convBefore) >= 2
    /\ convBefore[2].role = "assistant"

\* C3: while a relay call is outstanding the shell is busy: the flag is set, the
\* chat input is rendered disabled, and no further submission has been accepted.
C3_BusyWhileOutstanding ==
    pc = "awaiting" =>
        /\ thinking
        /\ inputDisabled
        /\ pending.kind # "prompt"

\* C4: whenever the script has ended and waits for input, the busy flag is
\* cleared and the input was rendered enabled again, whatever ended the attempt.
C4_NeverLeftBusy ==
    pc = "idle" => (~thinking /\ ~inputDisabled)

\* C4's case: an attempt ended by an exception no clause catches.
C4_UncaughtAttemptEnded ==
    /\ pc = "idle"
    /\ outcome = "uncaught"
    /\ Len(messages) >= 1

\* C5: an empty or all-whitespace message ends with 400 "Message cannot be empty."
C5_EmptyMessageIs400 ==
    (rpc = "done" /\ AllWhitespace(rreq.message)) =>
        /\ rresp.kind = "HTTPException"
        /\ rresp.status_code = 400
        /\ rresp.detail = <<"Message cannot be empty.">>

\* C6: for an accepted request the turns presented upstream are the history's
\* turns in order, each with its role and its part texts, then the new message.
C6_UpstreamTurnsInOrder ==
    (rpc = "upstream" \/ (rpc = "done" /\ rout.kind # "none")) =>
        LET h == rreq.chat_history
        IN  /\ Len(rconvo) = Len(h) + 1
            /\ \A i \in 1..Len(h) :
                  /\ rconvo[i].role = h[i].role
                  /\ Len(rconvo[i].parts) = Len(h[i].parts)
                  /\ \A j \in 1..Len(h[i].parts) :
                        rconvo[i].parts[j].text = h[i].parts[j].text
            /\ rconvo[Len(h) + 1].role = "user"
            /\ rconvo[Len(h) + 1].parts = <<[text |-> rreq.message]>>

\* C6's case: a history of two turns, one of them of two parts, is upstream.
C6_TwoTurnHistoryUpstream ==
    /\ rpc = "upstream"
    /\ Len(rreq.chat_history) >= 2
    /\ rreq.chat_history[1].role = "user"
    /\ Len(rreq.chat_history[2].parts) = 2

Classified ==
    {"ServiceUnavailable", "InvalidInput", "UpstreamBlocked", "UpstreamError",
     "InternalError"}

\* C7: a valid message ends with a ChatResponse of non-empty ai_message or with
\* a classified error carrying a detail, never with an unhandled exception.
C7_AlwaysClassified ==
    (/\ rpc = "done"
     /\ Len(rreq.message) >= 1
     /\ Len(rreq.message) <= 1000
     /\ ~AllWhitespace(rreq.message)) =>
        \/ rresp.kind = "ChatResponse" /\ rresp.ai_message # <<>>
        \/ /\ rresp.kind = "HTTPException"
           /\ rresp.site \in Classified
           /\ rresp.detail # <<>>

NoUsableCandidate(o) ==
    \/ o.candidates = <<>>
    \/ ~o.candidates[1].has_content
    \/ o.candidates[1].parts = <<>>

\* C8: an upstream reply without candidates, content or parts ends with a 200
\* ChatResponse whose ai_message is the fallback sentence.
C8_FallbackOnEmptyReply ==
    (rpc = "done" /\ rout.kind = "reply" /\ NoUsableCandidate(rout)) =>
        /\ rresp.kind = "ChatResponse"
        /\ rresp.status_code = 200
        /\ rresp.ai_message = <<"Sorry, I couldn't generate a coherent response.">>

\* C8's case: upstream replied with a candidate that has content but no parts.
C8_EmptyReplyServed ==
    /\ rpc = "done"
    /\ rout.kind = "reply"
    /\ rout.candidates # <<>>
    /\ rout.candidates[1].has_content
    /\ rout.candidates[1].parts = <<>>

Roles == {"user", "model"}

\* C9: every turn of the conversation, of a chat_history sent to the relay and of
\* what is forwarded upstream has role "user" or "model".
C9_RolesAreUserOrModel ==
    /\ \A i \in 1..Len(messages) : messages[i].role \in Roles
    /\ \A i \in 1..Len(request.chat_history) : request.chat_history[i].role \in Roles
    /\ \A i \in 1..Len(upstreamSeen) : upstreamSeen[i].role \in Roles

\* C10: two requests that fail with an unexpected exception get the same status
\* and the same detail, whatever the exceptions' texts.
C10_InternalErrorDetailGeneric ==
    (rpc = "done" /\ rresp.site = "InternalError" /\ delivered.site = "InternalError") =>
        /\ rresp.status_code = delivered.status_code
        /\ rresp.detail = delivered.detail

============================================================================
